---- MODULE Spec2Model ----
(***************************************************************************)
(* Model of prelude's context reconciliation: the provenance store         *)
(* (StateManager), the per-document mergers (ContextMerger), the `update`  *)
(* command with its force and dry-run modes, and the watch-triggered       *)
(* updateContext pass.                                                     *)
(***************************************************************************)
EXTENDS Integers, Sequences, FiniteSets, TLC

\* ------------------------------------------------------------------ bounds
MaxPasses == 2   \* reconciliation passes in one behaviour
MaxEnv == 1      \* environment steps (user edits, codebase changes)
MaxClock == 2    \* milliseconds the wall clock advances in one behaviour

\* ------------------------------------------------------------ JSON values
\* Every JSON value has the same record shape, so that values of different
\* JavaScript types can be compared.  "absent" is a key the object does not
\* have, "undefined" a key that is present and holds undefined.
AbsentV == [tag |-> "absent", s |-> "", n |-> 0, a |-> <<>>]
UndefV == [tag |-> "undefined", s |-> "", n |-> 0, a |-> <<>>]
NullV == [tag |-> "null", s |-> "", n |-> 0, a |-> <<>>]
Str(x) == [tag |-> "str", s |-> x, n |-> 0, a |-> <<>>]
Num(t) == [tag |-> "num", s |-> "", n |-> t, a |-> <<>>]
Arr(q) == [tag |-> "arr", s |-> "", n |-> 0, a |-> q]

\* an array element read as a value, and the object { "0": element }
ItemV(item) == [tag |-> "item", s |-> "", n |-> 0, a |-> <<item>>]
ObjV(item) == [tag |-> "obj", s |-> "", n |-> 0, a |-> <<item>>]

\* a plain object: its key/value pairs in insertion order, which is the
\* order JSON.stringify writes them in
Rec(pairs) == [tag |-> "rec", s |-> "", n |-> 0, a |-> pairs]

\* an array element: a string (val = "") or an object named by its key
\* (team member name, preference category, directory path)
Item(k, v) == [key |-> k, val |-> v]
S(k) == Item(k, "")

\* x === undefined
IsUndefined(v) == v.tag \in {"absent", "undefined"}
\* JavaScript truthiness of a value (arrays and non-empty strings are truthy)
Truthy(v) ==
  /\ ~IsUndefined(v)
  /\ v.tag # "null"
  /\ (v.tag = "str" => v.s # "")
  /\ (v.tag = "num" => v.n # 0)
\* JSON.stringify(v): undefined for both kinds of undefined
Stringify(v) == IF IsUndefined(v) THEN AbsentV ELSE v
\* v || []
OrEmpty(v) == IF Truthy(v) THEN v.a ELSE <<>>

Range(q) == {q[i] : i \in 1..Len(q)}

\* [...new Set(q)]: first occurrences, in order
RECURSIVE Dedup(_)
Dedup(q) ==
  IF q = <<>> THEN <<>>
  ELSE LET front == Dedup(SubSeq(q, 1, Len(q) - 1))
           x == q[Len(q)]
       IN IF x \in Range(front) THEN front ELSE Append(front, x)

\* -------------------------------------------------------------- documents
Files == {"project.json", "stack.json", "architecture.json", "constraints.json"}
FileOrder == <<"project.json", "stack.json", "architecture.json", "constraints.json">>
FileIdx(file) == CHOOSE i \in 1..Len(FileOrder) : FileOrder[i] = file

\* the keys of each document, in the order the inference writes them
ProjectKeys == <<"name", "createdAt", "updatedAt", "repository", "team", "goals">>
StackKeys == <<"language", "frameworks", "buildTools">>
ArchitectureKeys == <<"directories", "patterns", "conventions">>
ConstraintsKeys == <<"mustUse", "mustNotUse", "preferences", "codeStyle">>

KeysOf(file) ==
  CASE file = "project.json" -> ProjectKeys
    [] file = "stack.json" -> StackKeys
    [] file = "architecture.json" -> ArchitectureKeys
    [] file = "constraints.json" -> ConstraintsKeys

\* A document: exists = FALSE is a missing file / an undefined argument.
Doc(file, fn) == [exists |-> TRUE, f |-> fn]
EmptyFields(file) == [k \in Range(KeysOf(file)) |-> AbsentV]
NotFound(file) == [exists |-> FALSE, f |-> EmptyFields(file)]

\* Object.keys(doc): the keys that are present, undefined-valued ones included
ObjectKeys(file, doc) ==
  LET Present(k) == doc.f[k].tag # "absent"
  IN SelectSeq(KeysOf(file), Present)

\* JSON.parse(JSON.stringify(doc)): keys holding undefined are dropped
JsonRoundTrip(doc) ==
  [doc EXCEPT !.f = [k \in DOMAIN doc.f |-> Stringify(doc.f[k])]]

\* ------------------------------------------------------- provenance store
\* A field path is the sequence of its dot-separated segments.
NoTime == -1   \* an optional timestamp that is undefined

createInitialState(now) ==
  [version |-> "1.0.0", initialized |-> now, lastUpdate |-> now, files |-> <<>>]

\* a FieldState that carries both timestamps whatever its source is
trackFieldBothStamps(value, source, inferredHash, now) ==
  [value |-> value, source |-> source, lastInferred |-> now,
   lastModified |-> now, inferredHash |-> inferredHash]

trackField(value, source, inferredHash, now) ==
  [value |-> value,
   source |-> source,
   lastInferred |-> IF source = "inferred" THEN now ELSE NoTime,
   lastModified |-> IF source = "manual" THEN now ELSE NoTime,
   inferredHash |-> inferredHash]

\* sha256 of JSON.stringify(value), taken as collision free
hash(value) == Stringify(value)

\* index of the FileState of a file in state.files, 0 when there is none
FileIndex(state, file) ==
  LET hits == {i \in 1..Len(state.files) : state.files[i].file = file}
  IN IF hits = {} THEN 0 ELSE CHOOSE i \in hits : \A j \in hits : i <= j

HasFileState(state, file) == FileIndex(state, file) # 0
getFileState(state, file) == state.files[FileIndex(state, file)]

\* index of a path in the insertion-ordered field map, 0 when untracked
FieldIndex(fields, path) ==
  LET hits == {i \in 1..Len(fields) : fields[i].path = path}
  IN IF hits = {} THEN 0 ELSE CHOOSE i \in hits : TRUE

\* fields[path] = st on an insertion-ordered object
SetField(fields, path, st) ==
  IF FieldIndex(fields, path) = 0
  THEN Append(fields, [path |-> path, st |-> st])
  ELSE [fields EXCEPT ![FieldIndex(fields, path)].st = st]

\* the state with the FileState of file created if it was missing
getOrCreateFileState(state, file, now) ==
  IF HasFileState(state, file) THEN state
  ELSE [state EXCEPT !.files =
          Append(@, [file |-> file, lastUpdated |-> now, fields |-> <<>>])]

\* fileState.fields[fieldPath] = fs; fileState.lastUpdated = now
PutField(state, file, path, fs, now) ==
  LET st1 == getOrCreateFileState(state, file, now)
      i == FileIndex(st1, file)
  IN [st1 EXCEPT !.files[i].fields = SetField(@, path, fs),
                 !.files[i].lastUpdated = now]

trackInferred(state, file, path, value, now) ==
  PutField(state, file, path, trackField(value, "inferred", hash(value), now), now)

trackManual(state, file, path, value, now) ==
  PutField(state, file, path, trackField(value, "manual", AbsentV, now), now)

isManuallyEdited(state, file, path) ==
  /\ HasFileState(state, file)
  /\ LET fields == getFileState(state, file).fields
     IN /\ FieldIndex(fields, path) # 0
        /\ fields[FieldIndex(fields, path)].st.source = "manual"

\* the manual paths of a file, in the order the fields were first tracked
getManualFields(state, file) ==
  IF ~HasFileState(state, file) THEN <<>>
  ELSE LET fields == getFileState(state, file).fields
           IsManual(e) == e.st.source = "manual"
           manual == SelectSeq(fields, IsManual)
       IN [i \in 1..Len(manual) |-> manual[i].path]

\* fileState?.fields[fieldPath]: the FieldState, or undefined
HasFieldState(state, file, path) ==
  /\ HasFileState(state, file)
  /\ FieldIndex(getFileState(state, file).fields, path) # 0

getFieldState(state, file, path) ==
  LET fields == getFileState(state, file).fields
  IN fields[FieldIndex(fields, path)].st

hasInferredChanged(state, file, path, newValue) ==
  IF ~HasFieldState(state, file, path) THEN TRUE
  ELSE getFieldState(state, file, path).inferredHash # hash(newValue)

\* ------------------------------------------------------------ merge engine
Change(field, type, oldValue, newValue, reason) ==
  [field |-> field, type |-> type, oldValue |-> oldValue,
   newValue |-> newValue, reason |-> reason]

\* what a merge call produces: a result, or a TypeError
\* with the two argument objects as the call leaves them
MergeOk(merged, changes, existingAfter, inferredAfter) ==
  [status |-> "ok", merged |-> merged, changes |-> changes,
   existingAfter |-> existingAfter, inferredAfter |-> inferredAfter]
MergeThrew(file, existing, inferred) ==
  [status |-> "throw", merged |-> NotFound(file), changes |-> <<>>,
   existingAfter |-> existing, inferredAfter |-> inferred]

\* path.split('.').reduce((curr, key) => curr?.[key], obj).  The documents
\* hold arrays and no nested objects: a second segment reads an element by
\* its index ("0", the first one); any other longer path reads undefined
getNestedValue(doc, path) ==
  IF ~doc.exists \/ path[1] \notin DOMAIN doc.f THEN UndefV
  ELSE IF Len(path) = 1 THEN doc.f[path[1]]
  ELSE IF /\ Len(path) = 2 /\ path[2] = "0"
          /\ doc.f[path[1]].tag \in {"arr", "obj"}
          /\ Len(doc.f[path[1]].a) >= 1
  THEN ItemV(doc.f[path[1]].a[1])
  ELSE UndefV

\* The objects mergeProject holds: the fields of merged, of existing and of
\* inferred, and for each key of merged whose object its value is.  The
\* spread { ...inferred } copies the keys, not the values: merged starts
\* out sharing every value with inferred.
Heap(existing, inferred) ==
  [m |-> inferred.f, ex |-> existing.f, inf |-> inferred.f,
   alias |-> [k \in DOMAIN inferred.f |-> "inferred"]]

\* target["0"] = item on an array or an object { "0": ... }
WithFirst(cur, item) ==
  [cur EXCEPT !.a = IF @ = <<>> THEN <<item>> ELSE [@ EXCEPT ![1] = item]]

\* an assignment on the object merged holds at key k, seen through every
\* document that shares the object
AssignShared(h, k, new) ==
  [h EXCEPT !.m[k] = new,
            !.inf[k] = IF h.alias[k] = "inferred" THEN new ELSE @,
            !.ex[k] = IF h.alias[k] = "existing" THEN new ELSE @]

\* setNestedValue(merged, path, value), called with a value that
\* getNestedValue has read from existing.  A top-level key is assigned on
\* merged.  A longer path walks to merged[key], which is created as {} when
\* falsy, and assigns on that object: on the array merged shares with
\* inferred or with existing, when it shares one.
setNestedValue(h, path, value) ==
  IF path[1] \notin DOMAIN h.m THEN h
  ELSE IF Len(path) = 1
  THEN [h EXCEPT !.m[path[1]] = value, !.alias[path[1]] = "existing"]
  ELSE IF ~Truthy(h.m[path[1]])
  THEN [h EXCEPT !.m[path[1]] = ObjV(value.a[1]), !.alias[path[1]] = "own"]
  ELSE AssignShared(h, path[1], WithFirst(h.m[path[1]], value.a[1]))

\* ---- mergeProject
\* line 57: the fields that are kept whenever existing holds a value
preserveFields == <<"team", "goals">>

\* lines 37-54: the loop over the manual fields; acc = [h, ch], the
\* objects and the change list
RECURSIVE ProjectManualLoop(_, _, _)
ProjectManualLoop(manualFields, i, acc) ==
  IF i > Len(manualFields) THEN acc
  ELSE LET field == manualFields[i]
           existingValue == getNestedValue(Doc("project.json", acc.h.ex), field)
           inferredValue == getNestedValue(Doc("project.json", acc.h.inf), field)
           next ==
             IF IsUndefined(existingValue) THEN acc
             ELSE [h |-> setNestedValue(acc.h, field, existingValue),
                   ch |-> IF Stringify(existingValue) # Stringify(inferredValue)
                          THEN Append(acc.ch,
                                 Change(field, "preserved", Stringify(inferredValue),
                                        existingValue, "Manually edited field preserved"))
                          ELSE acc.ch]
       IN ProjectManualLoop(manualFields, i + 1, next)

\* lines 57-74: the loop over team and goals
RECURSIVE ProjectPreserveLoop(_, _)
ProjectPreserveLoop(i, acc) ==
  IF i > Len(preserveFields) THEN acc
  ELSE LET field == preserveFields[i]
           existingValue == acc.h.ex[field]
           inferredValue == acc.h.inf[field]
           next ==
             IF /\ ~IsUndefined(existingValue)
                /\ existingValue.tag # "null"
                /\ Stringify(existingValue) # Stringify(inferredValue)
             THEN [h |-> [acc.h EXCEPT !.m[field] = existingValue,
                                       !.alias[field] = "existing"],
                   ch |-> Append(acc.ch,
                            Change(<<field>>, "preserved", AbsentV, existingValue,
                                   "User-maintained field"))]
             ELSE acc
       IN ProjectPreserveLoop(i + 1, next)

\* lines 77-103: the loop over Object.keys(inferred); acc = the change list
RECURSIVE ProjectInferredLoop(_, _, _, _, _, _)
ProjectInferredLoop(keys, i, manualFields, existing, inferred, acc) ==
  IF i > Len(keys) THEN acc
  ELSE LET key == keys[i]
           oldValue == existing.f[key]
           newValue == inferred.f[key]
           next ==
             IF key \in Range(preserveFields) \/ <<key>> \in Range(manualFields)
             THEN acc
             ELSE IF Stringify(oldValue) = Stringify(newValue) THEN acc
             ELSE IF IsUndefined(oldValue)
             THEN Append(acc, Change(<<key>>, "added", AbsentV, newValue,
                                     "New inferred value"))
             ELSE Append(acc, Change(<<key>>, "modified", oldValue,
                                     Stringify(newValue), "Codebase changed"))
       IN ProjectInferredLoop(keys, i + 1, manualFields, existing, inferred, next)

\* lines 76-108: the changes of the inferred keys, the timestamp and the
\* result, from the objects the two loops have left
ProjectResult(acc, manualFields, existingAfter, inferredAfter, now) ==
  MergeOk(Doc("project.json", [acc.h.m EXCEPT !["updatedAt"] = Num(now)]),
          ProjectInferredLoop(ObjectKeys("project.json", inferredAfter), 1,
                              manualFields, existingAfter, inferredAfter, acc.ch),
          existingAfter, inferredAfter)

ProjectLoops(manualFields, existing, inferred) ==
  ProjectPreserveLoop(1, ProjectManualLoop(manualFields, 1,
                           [h |-> Heap(existing, inferred), ch |-> <<>>]))

ProjectFinish(acc, manualFields, now) ==
  ProjectResult(acc, manualFields, Doc("project.json", acc.h.ex),
                Doc("project.json", acc.h.inf), now)

mergeProject(state, existing, inferred, now) ==
  IF ~existing.exists \/ ~inferred.exists
  THEN MergeThrew("project.json", existing, inferred)
  ELSE ProjectFinish(ProjectLoops(getManualFields(state, "project.json"),
                                  existing, inferred),
                     getManualFields(state, "project.json"), now)

\* ---- mergeStack
\* the elements of the four dependency arrays, as a Set iterates them
StackDeps(doc) ==
  Dedup(OrEmpty(doc.f["frameworks"]) \o OrEmpty(doc.f["buildTools"]))

RECURSIVE StackRemovedLoop(_, _, _, _)
StackRemovedLoop(existingDeps, i, inferredDeps, acc) ==
  IF i > Len(existingDeps) THEN acc
  ELSE StackRemovedLoop(existingDeps, i + 1, inferredDeps,
         IF existingDeps[i] \in Range(inferredDeps) THEN acc
         ELSE Append(acc, Change(<<"dependencies">>, "removed",
                                 Str(existingDeps[i].key), AbsentV,
                                 "No longer detected in project")))

RECURSIVE StackAddedLoop(_, _, _, _)
StackAddedLoop(inferredDeps, i, existingDeps, acc) ==
  IF i > Len(inferredDeps) THEN acc
  ELSE StackAddedLoop(inferredDeps, i + 1, existingDeps,
         IF inferredDeps[i] \in Range(existingDeps) THEN acc
         ELSE Append(acc, Change(<<"dependencies">>, "added", AbsentV,
                                 Str(inferredDeps[i].key),
                                 "New dependency detected")))

mergeStack(state, existing, inferred, now) ==
  IF ~existing.exists \/ ~inferred.exists
  THEN MergeThrew("stack.json", existing, inferred)
  ELSE LET existingDeps == StackDeps(existing)
           inferredDeps == StackDeps(inferred)
           removed == StackRemovedLoop(existingDeps, 1, inferredDeps, <<>>)
       IN MergeOk(Doc("stack.json", inferred.f),
                  StackAddedLoop(inferredDeps, 1, existingDeps, removed),
                  existing, inferred)

\* ---- mergeArchitecture
\* reading obj.key into a property: an absent key reads undefined
ReadProp(v) == IF IsUndefined(v) THEN UndefV ELSE v

RECURSIVE ArchRemovedLoop(_, _, _, _)
ArchRemovedLoop(existingDirs, i, inferredDirPaths, acc) ==
  IF i > Len(existingDirs) THEN acc
  ELSE ArchRemovedLoop(existingDirs, i + 1, inferredDirPaths,
         IF existingDirs[i].key \in inferredDirPaths THEN acc
         ELSE Append(acc, Change(<<"directories">>, "removed",
                                 Str(existingDirs[i].key), AbsentV,
                                 "Directory no longer exists")))

\* a loop that reports no new directory
ArchAddedLoopNone(inferredDirs, i, existingDirPaths, acc) == acc

RECURSIVE ArchAddedLoop(_, _, _, _)
ArchAddedLoop(inferredDirs, i, existingDirPaths, acc) ==
  IF i > Len(inferredDirs) THEN acc
  ELSE ArchAddedLoop(inferredDirs, i + 1, existingDirPaths,
         IF inferredDirs[i].key \in existingDirPaths THEN acc
         ELSE Append(acc, Change(<<"directories">>, "added", AbsentV,
                                 Str(inferredDirs[i].key),
                                 "New directory detected")))

mergeArchitecture(state, existing, inferred, now) ==
  IF ~existing.exists \/ (~inferred.exists /\ Truthy(existing.f["directories"]))
  THEN MergeThrew("architecture.json", existing, inferred)
  ELSE LET manualFields == getManualFields(state, "architecture.json")
           keepPatterns == <<"patterns">> \in Range(manualFields)
           m1 == IF keepPatterns
                 THEN [inferred.f EXCEPT !["patterns"] = ReadProp(existing.f["patterns"])]
                 ELSE inferred.f
           ch1 == IF keepPatterns
                  THEN <<Change(<<"patterns">>, "preserved", AbsentV,
                                Stringify(existing.f["patterns"]),
                                "Manually specified patterns")>>
                  ELSE <<>>
           both == Truthy(existing.f["directories"]) /\ Truthy(inferred.f["directories"])
           existingDirs == existing.f["directories"].a
           inferredDirs == inferred.f["directories"].a
           existingDirPaths == {d.key : d \in Range(existingDirs)}
           inferredDirPaths == {d.key : d \in Range(inferredDirs)}
           ch2 == IF both
                  THEN ArchAddedLoop(inferredDirs, 1, existingDirPaths,
                         ArchRemovedLoop(existingDirs, 1, inferredDirPaths, ch1))
                  ELSE ch1
       IN MergeOk(Doc("architecture.json", m1), ch2, existing, inferred)

\* ---- mergeConstraints
\* existing[field].filter(item => isManuallyEdited(file, `${field}.${key}`))
ManualItems(state, existing, field) ==
  LET IsManualItem(item) ==
        isManuallyEdited(state, "constraints.json", <<field, item.key>>)
  IN SelectSeq(existing.f[field].a, IsManualItem)

\* a union that keeps the manual items and drops the inferred ones
MergeMustManualOnly(state, existing, inferred, field) ==
  IF Truthy(existing.f[field])
  THEN Arr(Dedup(ManualItems(state, existing, field)))
  ELSE inferred.f[field]

\* lines 240-254: merged[field] for mustUse and mustNotUse
MergeMust(state, existing, inferred, field) ==
  IF Truthy(existing.f[field])
  THEN Arr(Dedup(OrEmpty(inferred.f[field]) \o ManualItems(state, existing, field)))
  ELSE inferred.f[field]

mergeConstraints(state, existing, inferred, now) ==
  LET hasPrefs == Truthy(existing.f["preferences"])
                  /\ Len(existing.f["preferences"].a) > 0
  IN IF \/ ~existing.exists
        \/ /\ ~inferred.exists
           /\ (hasPrefs \/ Truthy(existing.f["mustUse"])
                        \/ Truthy(existing.f["mustNotUse"]))
     THEN MergeThrew("constraints.json", existing, inferred)
     ELSE LET manualPreferences == ManualItems(state, existing, "preferences")
              prefs == IF hasPrefs
                       THEN Arr(OrEmpty(inferred.f["preferences"]) \o manualPreferences)
                       ELSE inferred.f["preferences"]
              ch == IF hasPrefs /\ Len(manualPreferences) > 0
                    THEN <<Change(<<"preferences">>, "preserved", AbsentV,
                                  Arr(manualPreferences),
                                  "User-defined preferences preserved")>>
                    ELSE <<>>
          IN MergeOk(Doc("constraints.json",
                         [inferred.f EXCEPT
                            !["preferences"] = prefs,
                            !["mustUse"] = MergeMust(state, existing, inferred, "mustUse"),
                            !["mustNotUse"] = MergeMust(state, existing, inferred, "mustNotUse")]),
                     ch, existing, inferred)

\* the merger of a document kind
merge(file, state, existing, inferred, now) ==
  CASE file = "project.json" -> mergeProject(state, existing, inferred, now)
    [] file = "stack.json" -> mergeStack(state, existing, inferred, now)
    [] file = "architecture.json" -> mergeArchitecture(state, existing, inferred, now)
    [] file = "constraints.json" -> mergeConstraints(state, existing, inferred, now)

\* ------------------------------------------------------------------ state
VARIABLES
  docs,       \* file -> the document on disk in .context/
  stateFile,  \* .context/.prelude/state.json: [exists, corrupt, state]; a
              \* corrupt file holds text that JSON.parse rejects
  backups,    \* .context/.prelude/history/: the set of [name, content]
  codebase,   \* what the inference routines read from the project root
  clock,      \* the wall clock, in milliseconds
  passes,     \* reconciliation passes run so far
  envSteps,   \* environment steps taken so far
  last,       \* the most recent pass, its options, report and outcome, while
              \* the project is as that pass left it
  call,       \* the arguments of a single merge call
  ret,        \* what that call returned
  again,      \* what the same call returned when repeated on the merged
              \* document, as the next pass repeats it
  sm,         \* the state of a StateManager that is driven call by call
  calls,      \* track calls made on it so far
  inferredArg,   \* field -> the value last passed to trackInferred, if any
  changedFiles,  \* createWatcher: the paths collected for the next pass
  events,        \* createWatcher: the events collected
  debounceTimer, \* createWatcher: [armed, due], the timer set last
  inflight,      \* the `files` of each timer callback awaiting its pass
  logging,       \* the events each callback in logWatchEvents has read
                 \* from the log file and not yet written back
  watchlog,      \* .context/watchlog.json
  options,       \* createWatcher: [once]
  watcher,       \* "watching", "closed" (close requested) or "exited"
  obs            \* what has been observed of the watcher so far

vars == <<docs, stateFile, backups, codebase, clock, passes, envSteps, last, call, ret,
          again,
          sm, calls, inferredArg,
          changedFiles, events, debounceTimer, inflight, logging, watchlog,
          options, watcher, obs>>
passVars == <<docs, stateFile, backups, codebase, clock, passes, envSteps, last>>
callVars == <<call, ret, again>>
trackVars == <<sm, calls, inferredArg>>
watchVars == <<changedFiles, events, debounceTimer, inflight, logging, watchlog,
               options, watcher, obs>>

\* ------------------------------------------- merge calls on bounded inputs
NoRet ==
  [status |-> "none", merged |-> NotFound("project.json"), changes |-> <<>>,
   existingAfter |-> NotFound("project.json"),
   inferredAfter |-> NotFound("project.json")]
NoCall == [file |-> "none", state |-> createInitialState(0),
           existing |-> NotFound("project.json"),
           inferred |-> NotFound("project.json"), now |-> 0]

\* the values a field takes in the documents handed to a merge call
Strs(names) == {Str(x) : x \in names}
Arrs(seqs) == {Arr(q) : q \in seqs}

ProjectDocs(ts, undef) ==
  {Doc("project.json",
       [name |-> n, createdAt |-> Num(ts), updatedAt |-> Num(ts),
        repository |-> r, team |-> t, goals |-> g]) :
     n \in Strs({"a", "b"}), r \in {undef, Str("git")},
     t \in {undef, NullV} \cup Arrs({<<S("ann")>>, <<S("bob")>>}),
     g \in {AbsentV} \cup Arrs({<<S("ship")>>})}

DepArrays ==
  {AbsentV} \cup Arrs({<<>>, <<S("React")>>, <<S("React"), S("Remix")>>,
                       <<S("React"), S("Next.js")>>})

StackDocs ==
  {Doc("stack.json", [language |-> l, frameworks |-> fw, buildTools |-> bt]) :
     l \in Strs({"TypeScript", "Go"}), fw \in DepArrays,
     bt \in {AbsentV} \cup Arrs({<<S("Vite")>>, <<S("React")>>})}

ArchitectureDocs ==
  {Doc("architecture.json", [directories |-> d, patterns |-> p, conventions |-> c]) :
     d \in {AbsentV} \cup Arrs({<<>>, <<Item("src", "3")>>,
                                <<Item("src", "3"), Item("lib", "1")>>,
                                <<Item("lib", "1"), Item("src", "4")>>}),
     p \in {AbsentV} \cup Arrs({<<S("MVC")>>, <<S("MVC"), S("Hooks")>>}),
     c \in {AbsentV} \cup Arrs({<<S("Prettier")>>})}

ConstraintsDocs ==
  {Doc("constraints.json",
       [mustUse |-> mu, mustNotUse |-> mn, preferences |-> pr, codeStyle |-> cs]) :
     mu \in {AbsentV} \cup Arrs({<<>>, <<S("TypeScript")>>, <<S("Tailwind")>>,
                                 <<S("TypeScript"), S("Tailwind")>>}),
     mn \in {AbsentV} \cup Arrs({<<S("jQuery")>>}),
     pr \in {AbsentV} \cup Arrs({<<>>, <<Item("Quality", "Husky")>>,
                                 <<Item("Commits", "Conventional"), Item("Quality", "Husky")>>}),
     cs \in {AbsentV, Str("ESLint")}}

\* the paths a caller of the merge may have tagged, per file
TaggedPaths(file) ==
  CASE file = "project.json" ->
         <<<<"name">>, <<"team">>, <<"goals">>, <<"updatedAt">>, <<"team", "0">>>>
    [] file = "stack.json" -> <<<<"language">>, <<"frameworks">>, <<"frameworks", "Remix">>>>
    [] file = "architecture.json" -> <<<<"patterns">>, <<"conventions">>>>
    [] file = "constraints.json" ->
         <<<<"mustUse", "TypeScript">>, <<"mustNotUse", "jQuery">>,
           <<"preferences", "Quality">>>>

\* the store after trackManual on the chosen paths, with the existing values
RECURSIVE TrackChosen(_, _, _, _, _)
TrackChosen(file, chosen, i, existing, state) ==
  IF i > Len(TaggedPaths(file)) THEN state
  ELSE TrackChosen(file, chosen, i + 1, existing,
         IF i \in chosen
         THEN trackManual(state, file, TaggedPaths(file)[i],
                          Stringify(getNestedValue(existing, TaggedPaths(file)[i])), 0)
         ELSE state)

ExistingDocs(file) ==
  {NotFound(file)} \cup
  (CASE file = "project.json" -> ProjectDocs(0, AbsentV)
     [] file = "stack.json" -> StackDocs
     [] file = "architecture.json" -> ArchitectureDocs
     [] file = "constraints.json" -> ConstraintsDocs)

InferredDocs(file) ==
  {NotFound(file)} \cup
  (CASE file = "project.json" ->
          {d \in ProjectDocs(1, UndefV) : d.f["goals"] = AbsentV}
            \cup ProjectDocs(0, AbsentV)
     [] file = "stack.json" -> StackDocs
     [] file = "architecture.json" -> ArchitectureDocs
     [] file = "constraints.json" -> ConstraintsDocs)

MergeCall(file, e, inf, chosen, now) ==
  [file |-> file,
   state |-> TrackChosen(file, chosen, 1, e, createInitialState(0)),
   existing |-> e, inferred |-> inf, now |-> now]

\* the result of a call is kept in ret, that of the repeated call in again
KeepResult(first, r) ==
  /\ ret' = IF first THEN r ELSE ret
  /\ again' = IF first THEN again ELSE r

\* a merge call, and then the call the next pass makes: the merged document
\* has been written and read back, the inferred document and the store are
\* the same
CallMerge(file) ==
  /\ call.file = file
  /\ ret.status \in {"none", "ok"}
  /\ again.status = "none"
  /\ KeepResult(ret.status = "none",
                merge(file, call.state,
                      IF ret.status = "none" THEN call.existing
                      ELSE JsonRoundTrip(ret.merged),
                      call.inferred, call.now))
  /\ UNCHANGED <<call, passVars, trackVars, watchVars>>

CallMergeProject == CallMerge("project.json")
CallMergeStack == CallMerge("stack.json")
CallMergeArchitecture == CallMerge("architecture.json")
CallMergeConstraints == CallMerge("constraints.json")

MergeNext ==
  \/ CallMergeProject
  \/ CallMergeStack
  \/ CallMergeArchitecture
  \/ CallMergeConstraints

\* -------------------------------------------------------------- inference
\* What the inference reads: the package.json author, whether react is a
\* dependency, whether tsconfig.json exists.
Codebases == [author : {"", "ann"}, react : BOOLEAN, tsconfig : BOOLEAN]

inferProjectMetadata(cb, now) ==
  Doc("project.json",
      [name |-> Str("a"),
       createdAt |-> Num(now),
       updatedAt |-> Num(now),
       repository |-> UndefV,
       team |-> IF cb.author # "" THEN Arr(<<S(cb.author)>>) ELSE UndefV,
       goals |-> AbsentV])

inferStack(cb, now) ==
  Doc("stack.json",
      [language |-> Str("TypeScript/JavaScript"),
       frameworks |-> Arr(IF cb.react THEN <<S("React")>> ELSE <<>>),
       buildTools |-> Arr(<<>>)])

inferArchitecture(cb, now) ==
  Doc("architecture.json",
      [directories |-> Arr(<<Item("src", "3")>>),
       patterns |-> Arr(<<>>),
       conventions |-> Arr(IF cb.tsconfig THEN <<S("TypeScript strict mode")>> ELSE <<>>)])

inferConstraints(cb, now) ==
  Doc("constraints.json",
      [mustUse |-> Arr(IF cb.tsconfig THEN <<S("TypeScript for type safety")>> ELSE <<>>),
       mustNotUse |-> Arr(<<>>),
       preferences |-> Arr(<<>>),
       codeStyle |-> AbsentV])

infer(file, cb, now) ==
  CASE file = "project.json" -> inferProjectMetadata(cb, now)
    [] file = "stack.json" -> inferStack(cb, now)
    [] file = "architecture.json" -> inferArchitecture(cb, now)
    [] file = "constraints.json" -> inferConstraints(cb, now)

\* -------------------------------------------------------- the update pass
\* a store file that is read whatever it holds
loadStateUnguarded(sf, now) == IF sf.exists THEN sf.state ELSE createInitialState(now)

\* new StateManager(contextDir): the store on disk, or a fresh one when the
\* file is missing or the read or the parse throws
loadState(sf, now) ==
  IF sf.exists /\ ~sf.corrupt THEN sf.state ELSE createInitialState(now)

\* timestamp of the backup file name: ISO time with the milliseconds cut off
BackupName(now) == now \div 1000

\* writeFileSync(backupPath, ...): a file of the same name is overwritten
backup(bk, state, now) ==
  {b \in bk : b.name # BackupName(now)}
    \cup {[name |-> BackupName(now), content |-> state]}

\* save(): state.lastUpdate = now, then the store file is overwritten
save(state, now) ==
  [exists |-> TRUE, corrupt |-> FALSE, state |-> [state EXCEPT !.lastUpdate = now]]

\* an entry that is tagged Inferred whatever the merged value is
TrackedFieldAlwaysInferred(key, merged, inferred, now) ==
  trackField(merged.f[key], "inferred", hash(merged.f[key]), now)

\* lines 222-228: the entry trackInferred or trackManual records for a key
TrackedField(key, merged, inferred, now) ==
  LET mergedValue == merged.f[key]
      inferredValue == inferred.f[key]
  IN IF Stringify(mergedValue) = Stringify(inferredValue)
     THEN trackField(mergedValue, "inferred", hash(mergedValue), now)
     ELSE trackField(mergedValue, "manual", AbsentV, now)

\* a field map that records each key under an item-level path
TrackedFieldsItemLevel(fields, keys, merged, inferred, now) ==
  fields \o [j \in 1..Len(keys) |->
               [path |-> <<keys[j], "0">>,
                st |-> TrackedField(keys[j], merged, inferred, now)]]

\* the field map after the loop of lines 215-229 has tracked `keys`: a
\* tracked key replaces its entry in place, a new key is appended in order
TrackedFields(fields, keys, merged, inferred, now) ==
  LET IsNew(key) == FieldIndex(fields, <<key>>) = 0
      fresh == SelectSeq(keys, IsNew)
      Retrack(e) ==
        IF Len(e.path) = 1 /\ e.path[1] \in Range(keys)
        THEN [path |-> e.path, st |-> TrackedField(e.path[1], merged, inferred, now)]
        ELSE e
  IN [j \in 1..Len(fields) |-> Retrack(fields[j])]
       \o [j \in 1..Len(fresh) |->
             [path |-> <<fresh[j]>>,
              st |-> TrackedField(fresh[j], merged, inferred, now)]]

\* the FileState of a file after trackAllFields(file, merged, inferred);
\* a key whose merged value is undefined is skipped (line 220)
trackAllFields(fileState, file, merged, inferred, now) ==
  LET IsTracked(key) == ~IsUndefined(merged.f[key])
      keys == SelectSeq(ObjectKeys(file, merged), IsTracked)
  IN IF keys = <<>> THEN fileState
     ELSE [file |-> file, lastUpdated |-> now,
           fields |-> TrackedFields(fileState.fields, keys, merged, inferred, now)]

\* lines 117-120: trackAllFields for the four files.  A file without a
\* FileState gets one, in the order of the calls, when its first field is
\* tracked; each call changes the FileState of its own file only.
TrackFiles(state, merged, inferred, now) ==
  LET IsCreated(file) ==
        /\ ~HasFileState(state, file)
        /\ \E key \in Range(ObjectKeys(file, merged[file])) :
              ~IsUndefined(merged[file].f[key])
      created == SelectSeq(FileOrder, IsCreated)
      files == state.files
                 \o [j \in 1..Len(created) |->
                       [file |-> created[j], lastUpdated |-> now, fields |-> <<>>]]
      Tracked(fileState) ==
        IF fileState.file \in Files
        THEN trackAllFields(fileState, fileState.file, merged[fileState.file],
                            inferred[fileState.file], now)
        ELSE fileState
  IN [state EXCEPT !.files = [j \in 1..Len(files) |-> Tracked(files[j])]]

\* lines 71-76: the four merge results, in the order of FileOrder
RECURSIVE MergeAll(_, _, _, _, _)
MergeAll(i, state, existing, inferred, now) ==
  IF i > Len(FileOrder) THEN <<>>
  ELSE <<merge(FileOrder[i], state, existing[FileOrder[i]],
               inferred[FileOrder[i]], now)>>
         \o MergeAll(i + 1, state, existing, inferred, now)

\* ...result.changes.map(c => ({ file, ...c })), for the four files in order
RECURSIVE AllChanges(_, _)
AllChanges(i, results) ==
  IF i > Len(FileOrder) THEN <<>>
  ELSE LET ch == results[i].changes
       IN [j \in 1..Len(ch) |-> [file |-> FileOrder[i], change |-> ch[j]]]
            \o AllChanges(i + 1, results)

\* writeJSON of the first `count` files of FileOrder
WriteFirst(count, old, new) ==
  [file \in Files |->
     IF \E i \in 1..count : FileOrder[i] = file
     THEN JsonRoundTrip(new[file])
     ELSE old[file]]

\* a count in which a throw of the backup does not stop the writes
WritesBeforeBackupIgnored(fp) ==
  CASE fp \in {"infer", "write1"} -> 0
    [] fp = "write2" -> 1
    [] fp = "write3" -> 2
    [] fp = "write4" -> 3
    [] OTHER -> 4

\* the number of writeJSON calls that succeed when the pass fails at `fp`
WritesBefore(fp) ==
  CASE fp \in {"backup", "infer", "write1"} -> 0
    [] fp = "write2" -> 1
    [] fp = "write3" -> 2
    [] fp = "write4" -> 3
    [] OTHER -> 4

FailurePoints == {"none", "backup", "infer", "write3"}

\* threw is the step of `update` that threw, attempted the kinds the pass set
\* out to reconcile, failed the kinds whose inference or write threw,
\* written the kinds whose document the pass wrote, differing the kinds
\* whose merged document a pass that found nothing to do left unwritten
\* although it differed from the document on disk, batch the changed paths
\* a watch-triggered pass was handed
NoLast ==
  [op |-> "none", force |-> FALSE, dryRun |-> FALSE, outcome |-> "none",
   report |-> <<>>, threw |-> "none", attempted |-> {}, failed |-> {},
   written |-> {}, differing |-> {}, batch |-> {}]

\* the kinds whose merged document, as writeJSON would write it, differs from
\* the document on disk in a field other than the update timestamp
Differing(old, merged) ==
  {file \in Files :
     \E k \in DOMAIN old[file].f :
       k # "updatedAt" /\ JsonRoundTrip(merged[file]).f[k] # old[file].f[k]}

\* the kind whose step throws at a failure point: the inference that throws
\* is the second one, inferStack
FailedKind(fp) ==
  CASE fp = "infer" -> {"stack.json"}
    [] fp \in {"write1", "write2", "write3", "write4"} ->
         {FileOrder[WritesBefore(fp) + 1]}
    [] OTHER -> {}

\* a pass that takes its backup in a dry run too
BackupAlways(dryRun, bk, state, now) == backup(bk, state, now)

\* lines 37-43: the backup a pass takes unless it is a dry run
BackupBeforeUpdate(dryRun, bk, state, now) ==
  IF dryRun THEN bk ELSE backup(bk, state, now)

\* a force pass that leaves project.json as it is on disk
forceUpdateKeepProject(old, inferred, fp) ==
  [file \in Files |->
     IF file = "project.json" THEN old[file]
     ELSE WriteFirst(WritesBefore(fp), old, inferred)[file]]

\* forceUpdate, lines 149-153: the inferred documents are written in order
\* until a write throws
forceUpdate(old, inferred, fp) == WriteFirst(WritesBefore(fp), old, inferred)

\* update(options), lines 20-133, with forceUpdate, lines 138-161.  fp is
\* the step that throws, d the time that passes between the inference and
\* the merge.  A throw ends in process.exit(1).
update(force, dryRun, fp, d) ==
  LET t0 == clock
      stateManager == loadState(stateFile, t0)
      bk1 == BackupBeforeUpdate(dryRun, backups, stateManager, t0)
      tInfer == t0
      inferred == [file \in Files |-> infer(file, codebase, tInfer)]
      tMerge == tInfer + d
      results == MergeAll(1, stateManager, docs, inferred, tMerge)
      merged == [file \in Files |-> results[FileIdx(file)].merged]
      inferredAfter == [file \in Files |-> results[FileIdx(file)].inferredAfter]
      allChanges == AllChanges(1, results)
      End(outcome, dcs, sf, bk, t, report, threw, count) ==
        [docs |-> dcs, stateFile |-> sf, backups |-> bk, clock |-> t,
         outcome |-> outcome, inferred |-> inferred, report |-> report,
         threw |-> threw, failed |-> FailedKind(threw),
         written |-> {FileOrder[i] : i \in 1..count},
         differing |-> {}]
  IN IF ~dryRun /\ fp = "backup"
       THEN End("failed", WriteFirst(WritesBefore(fp), docs, merged),
                stateFile, backups, t0, <<>>, "backup", 0)
     ELSE IF \E file \in Files : ~docs[file].exists
       THEN End("failed", docs, stateFile, bk1, t0, <<>>, "read", 0)
     ELSE IF fp = "infer"
       THEN End("failed", docs, stateFile, bk1, tInfer, <<>>, "infer", 0)
     ELSE IF force /\ dryRun
       THEN End("dryrun", docs, stateFile, bk1, tInfer, <<>>, "none", 0)
     ELSE IF force
       THEN End(IF WritesBefore(fp) = 4 THEN "ok" ELSE "failed",
                forceUpdate(docs, inferred, fp),
                stateFile, bk1, tInfer, <<>>,
                IF WritesBefore(fp) = 4 THEN "none" ELSE fp, WritesBefore(fp))
     ELSE IF \E i \in 1..Len(results) : results[i].status = "throw"
       THEN End("failed", docs, stateFile, bk1, tMerge, <<>>, "merge", 0)
     ELSE IF allChanges = <<>>
       THEN [End("uptodate", docs, stateFile, bk1, tMerge, allChanges, "none", 0)
               EXCEPT !.differing = Differing(docs, merged)]
     ELSE IF dryRun
       THEN End("dryrun", docs, stateFile, bk1, tMerge, allChanges, "none", 0)
     ELSE IF WritesBefore(fp) < 4
       THEN End("failed", WriteFirst(WritesBefore(fp), docs, merged),
                stateFile, bk1, tMerge, allChanges, fp, WritesBefore(fp))
     ELSE End("ok", WriteFirst(4, docs, merged),
              save(TrackFiles(stateManager, merged, inferredAfter, tMerge), tMerge),
              bk1, tMerge, allChanges, "none", 4)

\* the inputs that can make a difference: a dry run takes no backup and
\* writes nothing, and only a merge that is reached reads the clock again
UpdateInput(force, dryRun, fp, d) ==
  /\ dryRun => fp \in {"none", "infer"}
  /\ (force \/ fp \in {"backup", "infer"}) => d = 0

Update ==
  /\ passes < MaxPasses
  /\ \E force \in BOOLEAN, dryRun \in BOOLEAN, fp \in FailurePoints, d \in {0, 1} :
       LET r == update(force, dryRun, fp, d)
       IN /\ clock + d <= MaxClock
          /\ UpdateInput(force, dryRun, fp, d)
          /\ docs' = r.docs
          /\ stateFile' = r.stateFile
          /\ backups' = r.backups
          /\ clock' = r.clock
          /\ last' = [op |-> "update", force |-> force, dryRun |-> dryRun,
                      outcome |-> r.outcome, report |-> r.report,
                      threw |-> r.threw, attempted |-> Files,
                      failed |-> r.failed, written |-> r.written,
                      differing |-> r.differing, batch |-> {}]
  /\ passes' = passes + 1
  /\ UNCHANGED <<codebase, envSteps, callVars, trackVars, watchVars>>

\* ------------------------------------------------- the watch-triggered pass
WatchedPaths == {"package.json", "src/index.ts", "tsconfig.json"}

\* the batches of changed paths a pass is handed: one that touches the stack
\* only, one that touches the architecture and the constraints
WatchBatches == {{"package.json"}, {"src/index.ts", "tsconfig.json"}}

\* a test that selects the architecture whatever the changed paths are
needsArchUpdateAlways(files) == TRUE

\* files.some(f => f.includes(...)), lines 24-43
needsStackUpdate(files) == "package.json" \in files
needsArchUpdate(files) == "src/index.ts" \in files
needsConstraintsUpdate(files) == "tsconfig.json" \in files

NeedsUpdate(file, files) ==
  CASE file = "stack.json" -> needsStackUpdate(files)
    [] file = "architecture.json" -> needsArchUpdate(files)
    [] file = "constraints.json" -> needsConstraintsUpdate(files)
    [] OTHER -> FALSE

\* updateContext(rootDir, files), lines 14-97: failing is the set of files
\* whose inference or write throws
updateContext(files, failing, now) ==
  LET Written(file) ==
        IF file = "project.json"
        THEN docs[file].exists /\ file \notin failing
        ELSE NeedsUpdate(file, files) /\ file \notin failing
      Failed(file) ==
        IF file = "project.json"
        THEN docs[file].exists /\ file \in failing
        ELSE NeedsUpdate(file, files) /\ file \in failing
      IsWritten(i) == Written(FileOrder[i])
      IsFailed(i) == Failed(FileOrder[i])
      watchOrder == <<2, 3, 4, 1>>
      updatedIdx == SelectSeq(watchOrder, IsWritten)
      errorIdx == SelectSeq(watchOrder, IsFailed)
  IN [docs |-> [file \in Files |->
                  IF ~Written(file) THEN docs[file]
                  ELSE IF file = "project.json"
                  THEN JsonRoundTrip([docs[file] EXCEPT !.f["updatedAt"] = Num(now)])
                  ELSE JsonRoundTrip(infer(file, codebase, now))],
      inferred |-> [file \in Files |->
                      IF file # "project.json" /\ NeedsUpdate(file, files)
                      THEN infer(file, codebase, now) ELSE NotFound(file)],
      updated |-> [i \in 1..Len(updatedIdx) |-> FileOrder[updatedIdx[i]]],
      errors |-> [i \in 1..Len(errorIdx) |-> FileOrder[errorIdx[i]]]]

\* a watch-triggered pass over a batch of changed paths; at most one of the
\* files it attempts fails
UpdateContext ==
  /\ passes < MaxPasses
  /\ \E files \in WatchBatches, failing \in {{}, {"stack.json"}, {"project.json"}} :
       LET r == updateContext(files, failing, clock)
       IN /\ \A file \in failing : file = "project.json" \/ NeedsUpdate(file, files)
          /\ docs' = r.docs
          /\ last' = [op |-> "updateContext", force |-> FALSE, dryRun |-> FALSE,
                      outcome |-> "ok", report |-> <<>>, threw |-> "none",
                      attempted |-> Range(r.updated) \cup Range(r.errors),
                      failed |-> Range(r.errors), written |-> Range(r.updated),
                      differing |-> {}, batch |-> files]
  /\ passes' = passes + 1
  /\ UNCHANGED <<stateFile, backups, codebase, clock, envSteps, callVars, trackVars, watchVars>>

\* ------------------------------------------------------------ environment
\* the hand edits a user makes to a document between passes
UserEdits ==
  {[file |-> "project.json", key |-> "team", value |-> Arr(<<S("bob")>>)],
   [file |-> "stack.json", key |-> "frameworks", value |-> Arr(<<S("React"), S("Remix")>>)],
   [file |-> "architecture.json", key |-> "patterns", value |-> Arr(<<S("MVC")>>)],
   [file |-> "constraints.json", key |-> "mustUse", value |-> Arr(<<S("Tailwind")>>)]}

UserEdit ==
  /\ envSteps < MaxEnv
  /\ \E e \in UserEdits :
       /\ docs[e.file].exists
       /\ docs' = [docs EXCEPT ![e.file].f[e.key] = e.value]
  /\ envSteps' = envSteps + 1
  /\ last' = NoLast
  /\ UNCHANGED <<stateFile, backups, codebase, clock, passes, callVars, trackVars, watchVars>>

\* the user deletes a document
RemoveDoc ==
  /\ envSteps < MaxEnv
  /\ \E file \in {"project.json", "stack.json"} :
       /\ docs[file].exists
       /\ docs' = [docs EXCEPT ![file] = NotFound(file)]
  /\ envSteps' = envSteps + 1
  /\ last' = NoLast
  /\ UNCHANGED <<stateFile, backups, codebase, clock, passes, callVars, trackVars, watchVars>>

\* the store file is damaged on disk between passes
CorruptStore ==
  /\ envSteps < MaxEnv
  /\ stateFile.exists /\ ~stateFile.corrupt
  /\ stateFile' = [stateFile EXCEPT !.corrupt = TRUE]
  /\ envSteps' = envSteps + 1
  /\ last' = NoLast
  /\ UNCHANGED <<docs, backups, codebase, clock, passes, callVars, trackVars, watchVars>>

CodebaseChange ==
  /\ envSteps < MaxEnv
  /\ \E cb \in Codebases :
       /\ Cardinality({k \in DOMAIN cb : cb[k] # codebase[k]}) = 1
       /\ codebase' = cb
  /\ envSteps' = envSteps + 1
  /\ last' = NoLast
  /\ UNCHANGED <<docs, stateFile, backups, clock, passes, callVars, trackVars, watchVars>>

\* ------------------------------------------- track calls on a StateManager
MaxCalls == 3   \* trackInferred / trackManual calls in one behaviour

\* the fields and the values of the calls
TrackedPaths ==
  {<<"project.json", <<"name">>>>, <<"project.json", <<"team">>>>,
   <<"stack.json", <<"language">>>>}
TrackedValues ==
  {Str("a"), Str("b"), Arr(<<S("ann")>>),
   Rec(<<Item("type", "git"), Item("url", "u")>>),
   Rec(<<Item("url", "u"), Item("type", "git")>>)}

NoArg == [given |-> FALSE, value |-> AbsentV]

TrackIdle ==
  /\ sm = createInitialState(0)
  /\ calls = 0
  /\ inferredArg = [k \in TrackedPaths |-> NoArg]

\* the n-th call is made in millisecond n
TrackInferred ==
  /\ calls < MaxCalls
  /\ \E k \in TrackedPaths, value \in TrackedValues :
       /\ sm' = trackInferred(sm, k[1], k[2], value, calls + 1)
       /\ inferredArg' = [inferredArg EXCEPT ![k] = [given |-> TRUE, value |-> value]]
  /\ calls' = calls + 1
  /\ UNCHANGED <<passVars, callVars, watchVars>>

TrackManual ==
  /\ calls < MaxCalls
  /\ \E k \in TrackedPaths, value \in TrackedValues :
       sm' = trackManual(sm, k[1], k[2], value, calls + 1)
  /\ calls' = calls + 1
  /\ UNCHANGED <<passVars, callVars, watchVars, inferredArg>>

TrackNext == TrackInferred \/ TrackManual

\* ------------------------------------------------------------ the watcher
DebounceMs == 1000   \* the delay of the debounce timer
WatchLogCap == 100   \* the events logWatchEvents keeps
MaxEvents == 3       \* file events in one behaviour
MaxTicks == 4        \* half windows of time that pass in one behaviour
MaxOldLog == 99      \* events in the watch log an earlier session left

NoTimer == [armed |-> FALSE, due |-> 0]

\* .context/watchlog.json: [exists, corrupt, events]; a corrupt file holds
\* text that JSON.parse rejects
NoLog == [exists |-> FALSE, corrupt |-> FALSE, events |-> <<>>]

\* a WatchEvent, lines 152-157; the timestamp of the n-th event of the
\* session is n, that of an event of an earlier session is at most 0
WatchEvent(n, path) == [timestamp |-> n, path |-> path, contextUpdated |-> <<>>]

\* the watch log the session finds: none, an unparseable one, one that an
\* earlier session has nearly filled
WatchLogs ==
  {NoLog,
   [exists |-> TRUE, corrupt |-> TRUE, events |-> <<>>],
   [exists |-> TRUE, corrupt |-> FALSE,
    events |-> [n \in 1..MaxOldLog |-> WatchEvent(n - MaxOldLog, "package.json")]]}

\* logWatchEvents, lines 203-211: the events read from the log file
existingLogs(log) == IF log.exists /\ ~log.corrupt THEN log.events ELSE <<>>

\* Array.prototype.slice(-n)
SliceLast(n, s) == IF Len(s) <= n THEN s ELSE SubSeq(s, Len(s) - n + 1, Len(s))

\* logWatchEvents, line 214
allEvents(existing, evs) == SliceLast(WatchLogCap, existing \o evs)

\* obs: started counts the passes begun; pending holds the paths of events
\* that no pass begun since has been handed; lastEventAt is the time of the
\* last event (-1 before the first); burst holds the paths of the events
\* that followed one another less than a window apart, up to the last one;
\* logged holds the timestamps of the events that were written to the watch
\* log at some time
WatchState(log, once) ==
  /\ changedFiles = {}
  /\ events = <<>>
  /\ debounceTimer = NoTimer
  /\ inflight = <<>>
  /\ logging = <<>>
  /\ watchlog = log
  /\ options = [once |-> once]
  /\ watcher = "watching"
  /\ obs = [started |-> 0, seen |-> 0, pending |-> {}, lastEventAt |-> -1,
            burst |-> {},
            logged |-> {existingLogs(log)[n].timestamp : n \in 1..Len(existingLogs(log))}]

WatchIdle == WatchState(NoLog, FALSE)

\* handleChange(path, eventType), lines 149-189, up to the setTimeout
FileEvent ==
  /\ watcher = "watching"
  /\ obs.seen < MaxEvents
  /\ \E path \in WatchedPaths :
       /\ changedFiles' = changedFiles \cup {path}
       /\ events' = Append(events, WatchEvent(obs.seen + 1, path))
       /\ obs' = [obs EXCEPT
                    !.seen = @ + 1,
                    !.pending = @ \cup {path},
                    !.lastEventAt = clock,
                    !.burst = IF obs.lastEventAt >= 0
                                 /\ clock - obs.lastEventAt < DebounceMs
                              THEN @ \cup {path} ELSE {path}]
  /\ debounceTimer' = [armed |-> TRUE, due |-> clock + DebounceMs]
  /\ UNCHANGED <<passVars, callVars, trackVars, inflight, logging, watchlog,
                 options, watcher>>

\* the timer callback, lines 166-168: it snapshots changedFiles and awaits
\* updateContext
TimerFires ==
  /\ watcher # "exited"
  /\ debounceTimer.armed /\ clock >= debounceTimer.due
  /\ debounceTimer' = [debounceTimer EXCEPT !.armed = FALSE]
  /\ inflight' = Append(inflight, changedFiles)
  /\ obs' = [obs EXCEPT !.started = @ + 1, !.pending = @ \ changedFiles]
  /\ UNCHANGED <<passVars, callVars, trackVars, changedFiles, events, logging,
                 watchlog, options, watcher>>

\* the callback resumes, lines 168-176 and 200-211: updateContext has
\* written the documents, the last event is given what was updated,
\* logWatchEvents reads the log file and awaits the read
PassCompletes ==
  /\ watcher # "exited"
  /\ \E i \in 1..Len(inflight) :
       LET r == updateContext(inflight[i], {}, clock)
       IN /\ docs' = r.docs
          /\ last' = [op |-> "updateContext", force |-> FALSE, dryRun |-> FALSE,
                      outcome |-> "ok", report |-> <<>>, threw |-> "none",
                      attempted |-> Range(r.updated) \cup Range(r.errors),
                      failed |-> Range(r.errors), written |-> Range(r.updated),
                      differing |-> {}, batch |-> inflight[i]]
          /\ events' = IF events = <<>> THEN events
                       ELSE [events EXCEPT ![Len(events)].contextUpdated = r.updated]
          /\ inflight' = SubSeq(inflight, 1, i - 1) \o SubSeq(inflight, i + 1, Len(inflight))
  /\ logging' = Append(logging, existingLogs(watchlog))
  /\ UNCHANGED <<stateFile, backups, codebase, clock, passes, envSteps,
                 callVars, trackVars, changedFiles, debounceTimer, watchlog,
                 options, watcher, obs>>

\* the rest of the callback, lines 213-216 and 176-187: the log is written,
\* the events are reported, the batch is reset; in once mode the callback
\* of watchOnce resolves and the command calls process.exit(0), which ends
\* the pending timer and the callbacks in flight
LogWritten ==
  /\ watcher # "exited"
  /\ \E i \in 1..Len(logging) :
       /\ watchlog' = [exists |-> TRUE, corrupt |-> FALSE,
                       events |-> allEvents(logging[i], events)]
       /\ logging' = IF options.once THEN <<>>
                     ELSE SubSeq(logging, 1, i - 1) \o SubSeq(logging, i + 1, Len(logging))
  /\ obs' = [obs EXCEPT !.logged = @ \cup {events[n].timestamp : n \in 1..Len(events)}]
  /\ changedFiles' = {}
  /\ events' = <<>>
  /\ watcher' = IF options.once THEN "exited" ELSE watcher
  /\ debounceTimer' = IF options.once THEN NoTimer ELSE debounceTimer
  /\ inflight' = IF options.once THEN <<>> ELSE inflight
  /\ UNCHANGED <<passVars, callVars, trackVars, options>>

\* SIGINT: the handler, which the command registers unless it runs once,
\* calls watcher.close() and awaits it
Stop ==
  /\ watcher = "watching"
  /\ ~options.once
  /\ watcher' = "closed"
  /\ UNCHANGED <<passVars, callVars, trackVars, changedFiles, events,
                 debounceTimer, inflight, logging, watchlog, options, obs>>

\* the handler resumes after the close: process.exit(0) ends the pending
\* timer and the callbacks in flight
Exit ==
  /\ watcher = "closed"
  /\ watcher' = "exited"
  /\ debounceTimer' = NoTimer
  /\ inflight' = <<>>
  /\ logging' = <<>>
  /\ UNCHANGED <<passVars, callVars, trackVars, changedFiles, events, watchlog,
                 options, obs>>

\* half a window passes; a timer that is due fires before more time passes
WatchTick ==
  /\ watcher # "exited"
  /\ clock + DebounceMs \div 2 <= MaxTicks * (DebounceMs \div 2)
  /\ ~(debounceTimer.armed /\ clock >= debounceTimer.due)
  /\ clock' = clock + DebounceMs \div 2
  /\ UNCHANGED <<docs, stateFile, backups, codebase, passes, envSteps, last,
                 callVars, trackVars, watchVars>>

WatchNext ==
  \/ FileEvent
  \/ TimerFires
  \/ PassCompletes
  \/ LogWritten
  \/ Stop
  \/ Exit
  \/ WatchTick

\* --------------------------------------------------------- specifications
InitCodebase == [author |-> "ann", react |-> TRUE, tsconfig |-> TRUE]

\* the project after `prelude init` at time 0: the four documents inferred
\* and written, no provenance recorded yet; the first pass starts in the
\* millisecond of the init or in the next one
PassInit ==
  /\ codebase = InitCodebase
  /\ docs = [file \in Files |-> JsonRoundTrip(infer(file, InitCodebase, 0))]
  /\ stateFile = [exists |-> FALSE, corrupt |-> FALSE, state |-> createInitialState(0)]
  /\ backups = {}
  /\ clock \in {0, 1}
  /\ passes = 0
  /\ envSteps = 0
  /\ last = NoLast

Init == PassInit /\ call = NoCall /\ ret = NoRet /\ again = NoRet /\ TrackIdle /\ WatchIdle

Next ==
  \/ Update
  \/ UpdateContext
  \/ UserEdit
  \/ RemoveDoc
  \/ CodebaseChange
  \/ CorruptStore

Spec == Init /\ [][Next]_vars

\* single merge calls on every bounded input
MergeInit ==
  /\ PassInit /\ clock = 0
  /\ \E file \in Files :
       \E e \in ExistingDocs(file), inf \in InferredDocs(file),
          chosen \in SUBSET (1..Len(TaggedPaths(file))),
          now \in IF file = "project.json" THEN {1, 2} ELSE {1} :
         call = MergeCall(file, e, inf, chosen, now)
  /\ ret = NoRet /\ again = NoRet
  /\ TrackIdle /\ WatchIdle

MergeSpec == MergeInit /\ [][MergeNext]_vars

\* a StateManager on a fresh store, driven by track calls
TrackInit ==
  PassInit /\ clock = 0 /\ call = NoCall /\ ret = NoRet /\ again = NoRet /\ TrackIdle /\ WatchIdle

TrackSpec == TrackInit /\ [][TrackNext]_vars

\* `prelude watch` on a project right after init
WatchInit ==
  /\ PassInit /\ clock = 0 /\ call = NoCall /\ ret = NoRet /\ again = NoRet
  /\ TrackIdle
  /\ \E log \in WatchLogs, once \in BOOLEAN : WatchState(log, once)

WatchSpec == WatchInit /\ [][WatchNext]_vars

\* ------------------------------------------------------ claims: the merge
\* the array fields the policy registry reconciles as a set union
SetUnionFields(file) ==
  CASE file = "stack.json" -> {"frameworks", "buildTools"}
    [] file = "constraints.json" -> {"mustUse", "mustNotUse", "preferences"}
    [] OTHER -> {}

HasChange(changes, field, type) ==
  \E j \in 1..Len(changes) : changes[j].field = field /\ changes[j].type = type

\* the top-level manual paths of the call's store that hold a value in
\* existing which differs from the inferred one; the update timestamp, which
\* mergeProject stamps itself, is left out
ManualDiffering ==
  {p \in Range(getManualFields(call.state, call.file)) :
     /\ Len(p) = 1
     /\ p # <<"updatedAt">>
     /\ ~IsUndefined(getNestedValue(call.existing, p))
     /\ Stringify(getNestedValue(call.existing, p))
          # Stringify(getNestedValue(call.inferred, p))}

\* C2: for every document kind, a field tagged Manual whose existing value
\* differs from the inferred one keeps the existing value in merged, and the
\* change list has a 'preserved' entry for it.
C2_ManualPreservedEveryKind ==
  ret.status = "ok" =>
    \A p \in ManualDiffering :
      /\ ret.merged.f[p[1]] = call.existing.f[p[1]]
      /\ HasChange(ret.changes, p, "preserved")

\* a document without its update timestamp
SansStamp(doc) ==
  [doc EXCEPT !.f = [k \in DOMAIN doc.f |->
                       IF k = "updatedAt" THEN AbsentV ELSE doc.f[k]]]

\* C3: merging a document with itself returns the document (compared as
\* JSON, apart from the update timestamp that the merge stamps) and no
\* change, for every kind and every provenance store.
C3_Idempotence ==
  (ret.status = "ok" /\ call.existing.exists /\ call.existing = call.inferred) =>
    /\ JsonRoundTrip(SansStamp(ret.merged)) = JsonRoundTrip(SansStamp(call.inferred))
    /\ ret.changes = <<>>

\* C4: every element of an existing set-union array that is tagged Manual is
\* in the merged array.
C4_ManualElementsRetained ==
  ret.status = "ok" =>
    \A field \in SetUnionFields(call.file) :
      \A e \in Range(OrEmpty(call.existing.f[field])) :
        isManuallyEdited(call.state, call.file, <<field, e.key>>)
          => e \in Range(OrEmpty(ret.merged.f[field]))

\* C5: for every set-union array, every inferred element is in the merged
\* array, and every merged element is in the existing or the inferred array.
C5_SetUnionBounds ==
  ret.status = "ok" =>
    \A field \in SetUnionFields(call.file) :
      LET inf == Range(OrEmpty(call.inferred.f[field]))
          ex == Range(OrEmpty(call.existing.f[field]))
          mg == Range(OrEmpty(ret.merged.f[field]))
      IN inf \subseteq mg /\ mg \subseteq (ex \cup inf)

\* a merge of mustUse that kept a manual item next to a new inferred one
C5_Witness ==
  /\ ret.status = "ok"
  /\ call.file = "constraints.json"
  /\ call.existing.f["mustUse"] = Arr(<<S("TypeScript")>>)
  /\ call.inferred.f["mustUse"] = Arr(<<S("Tailwind")>>)
  /\ ret.merged.f["mustUse"] = Arr(<<S("Tailwind"), S("TypeScript")>>)

\* the populated fields of a document
Populated(doc) == {k \in DOMAIN doc.f : ~IsUndefined(doc.f[k])}

\* C6: with the existing document absent the merge returns the inferred
\* document and exactly one 'added' change per populated field of it.
C6_FirstRunTotality ==
  (ret.status # "none" /\ ~call.existing.exists /\ call.inferred.exists) =>
    /\ ret.status = "ok"
    /\ ret.merged = call.inferred
    /\ Len(ret.changes) = Cardinality(Populated(call.inferred))
    /\ \A k \in Populated(call.inferred) : HasChange(ret.changes, <<k>>, "added")

\* ------------------------------------------------------ claims: the passes
PassStep == passes' = passes + 1
ManualKeys(file) ==
  {p[1] : p \in {q \in Range(getManualFields(stateFile.state, file)) : Len(q) = 1}}
    \cap DOMAIN docs[file].f

\* C1: a pass that is not a force pass leaves the document value of every
\* field tagged Manual in the provenance store as it was.
C1_ManualKeptByNonForcePasses ==
  [][(PassStep /\ ~last'.force) =>
       \A file \in Files : \A k \in ManualKeys(file) :
         docs'[file].f[k] = docs[file].f[k]]_vars

ForceStep ==
  /\ PassStep
  /\ last'.op = "update" /\ last'.force /\ ~last'.dryRun /\ last'.outcome = "ok"

C8_ForceRetagsInferred ==
  [][ForceStep =>
       \A file \in Files : \A k \in ManualKeys(file) :
         docs'[file].f[k] # docs[file].f[k]
           => ~isManuallyEdited(stateFile'.state, file, <<k>>)]_vars

\* C9: a dry-run pass, forced or not, leaves the four documents, the
\* provenance store file and the backups as they were.
C9_DryRunNoSideEffect ==
  [][(PassStep /\ last'.op = "update" /\ last'.dryRun) =>
       /\ docs' = docs
       /\ stateFile' = stateFile
       /\ backups' = backups]_vars

\* a dry run that reported changes, after a pass that wrote the store
C9_Witness ==
  /\ last.op = "update" /\ last.dryRun /\ last.outcome = "dryrun"
  /\ last.report # <<>>
  /\ stateFile.exists

DryRunDone(l) == l.op = "update" /\ l.dryRun /\ ~l.force /\ l.outcome = "dryrun"

\* C10: two consecutive dry-run passes with no change of the codebase or of
\* the documents between them produce the same change report.
C10_DryRunReportsEqual ==
  [][(PassStep /\ DryRunDone(last) /\ DryRunDone(last')) =>
       last'.report = last.report]_vars

\* C11: in a pass that is not a dry run, when the inference or the write of
\* one kind throws, every other kind the pass set out to reconcile is
\* written.
C11_FailureIsolation ==
  [][(PassStep /\ ~last'.dryRun /\ last'.failed # {}) =>
       (last'.attempted \ last'.failed) \subseteq last'.written]_vars

\* the pass has saved the provenance of a file: the store file is readable
\* and holds a FileState of the file as the pass, ending now, left it
ProvenanceSaved(file) ==
  /\ stateFile'.exists /\ ~stateFile'.corrupt
  /\ stateFile'.state.lastUpdate = clock'
  /\ HasFileState(stateFile'.state, file)
  /\ getFileState(stateFile'.state, file).lastUpdated = clock'

\* C12: a pass has written the document of a kind if and only if it has
\* updated and saved the provenance of that kind.
C12_WrittenIffProvenanceSaved ==
  [][PassStep =>
       \A file \in Files : file \in last'.written <=> ProvenanceSaved(file)]_vars

\* C13: a pass whose backup throws writes no document and leaves the store
\* file as it was.
C13_BackupFailureAborts ==
  [][(PassStep /\ last'.threw = "backup") =>
       /\ last'.outcome = "failed"
       /\ docs' = docs
       /\ stateFile' = stateFile
       /\ last'.written = {}]_vars

\* a pass whose backup threw while a store was on disk and a hand edit of
\* the stack was waiting to be reconciled
C13_Witness ==
  /\ last.op = "update" /\ last.threw = "backup" /\ last.outcome = "failed"
  /\ stateFile.exists
  /\ docs["stack.json"].f["frameworks"] = Arr(<<S("React"), S("Remix")>>)

\* the reasons of the changes that preserve a field the store tags Manual
ManualReasons ==
  {"Manually edited field preserved", "Manually specified patterns",
   "User-defined preferences preserved"}

\* C19: a pass over a store file that cannot be parsed works on a fresh,
\* empty store: it does not fail at the load, the backup it takes is the
\* fresh store, and its report preserves no field as Manual.
C19_CorruptStoreRecovered ==
  [][(PassStep /\ last'.op = "update" /\ stateFile.exists /\ stateFile.corrupt) =>
       /\ loadState(stateFile, clock) = createInitialState(clock)
       /\ (~last'.dryRun /\ last'.threw # "backup") =>
            [name |-> BackupName(clock), content |-> createInitialState(clock)]
              \in backups'
       /\ \A j \in 1..Len(last'.report) :
            last'.report[j].change.reason \notin ManualReasons]_vars

\* a dry run has reported changes over a corrupt store file whose text
\* tagged a project field Manual
C19_Witness ==
  /\ last.op = "update" /\ last.dryRun /\ last.outcome = "dryrun"
  /\ last.report # <<>>
  /\ stateFile.exists /\ stateFile.corrupt
  /\ getManualFields(stateFile.state, "project.json") # <<>>

\* C20: for every kind, a merge call whose inferred document is missing
\* (undefined) throws; it returns no result.
C20_MissingInferredThrows ==
  (ret.status # "none" /\ ~call.inferred.exists) => ret.status = "throw"

\* ------------------------------------------------- claims: the store
\* C18: a field that has been passed to trackInferred keeps, through later
\* trackManual calls, the hash of the value last passed to trackInferred, and
\* hasInferredChanged compares against that value.
C18_InferredHashKept ==
  \A k \in TrackedPaths :
    inferredArg[k].given =>
      /\ getFieldState(sm, k[1], k[2]).inferredHash = hash(inferredArg[k].value)
      /\ \A v \in TrackedValues :
           hasInferredChanged(sm, k[1], k[2], v) <=> hash(v) # hash(inferredArg[k].value)

\* ---------------------------------------------------- claims: the watcher
\* C14: at most one watch-triggered pass is running at any time.
C14_OnePassInFlight == Len(inflight) <= 1

\* the watcher is at rest: no timer pending, no pass running
Quiescent == ~debounceTimer.armed /\ inflight = <<>> /\ watcher = "watching"

\* C15: when the watcher has come to rest, every event it has observed has
\* been in the file list of a pass begun after the event.
C15_NoEventLost == Quiescent => obs.pending = {}

PassBegins == obs'.started = obs.started + 1

\* C16: a pass begins only when a full window has passed since the last
\* event, and its file list holds every path of the burst that ended with
\* that event.
C16_Debounce ==
  [][PassBegins =>
       /\ clock >= obs.lastEventAt + DebounceMs
       /\ obs.burst \subseteq inflight'[Len(inflight')]]_vars

\* C17: once the close of the watcher has been requested no pass begins, and
\* a pass that is running is left to complete.
C17_NoPassAfterStop ==
  [][/\ watcher # "watching" => ~PassBegins
     /\ watcher' = "exited" => inflight = <<>>]_vars

\* C21: every pass that writes a document has taken, before its first write,
\* a snapshot of the provenance store as the pass found it.
C21_SnapshotBeforeWrite ==
  [][(PassStep /\ last'.written # {}) =>
       [name |-> BackupName(clock), content |-> loadState(stateFile, clock)]
         \in backups']_vars

\* a normal pass (no force, no dry run) that ran to its end
NormalDone(l) == l.op = "update" /\ ~l.force /\ ~l.dryRun /\ l.outcome = "ok"

\* C22: after a completed normal pass every top-level key of a merged
\* document that holds a defined value is tagged Inferred when its JSON
\* serialization equals that of the inferred value of the key, and Manual
\* otherwise, whatever its tag was before the pass.
C22_TagsFollowComparison ==
  [][(PassStep /\ NormalDone(last')) =>
       \A file \in Files : \A k \in DOMAIN docs'[file].f :
         ~IsUndefined(docs'[file].f[k]) =>
           /\ HasFieldState(stateFile'.state, file, <<k>>)
           /\ getFieldState(stateFile'.state, file, <<k>>).source =
                IF Stringify(docs'[file].f[k])
                     = Stringify(infer(file, codebase, clock).f[k])
                THEN "inferred" ELSE "manual"]_vars

\* a completed normal pass has tagged Inferred a field that the store it
\* found (the content of its backup) tagged Manual, and Manual another
C22_Witness ==
  /\ NormalDone(last)
  /\ \E b \in backups :
       /\ b.name = BackupName(clock)
       /\ isManuallyEdited(b.content, "project.json", <<"updatedAt">>)
  /\ getFieldState(stateFile.state, "project.json", <<"updatedAt">>).source = "inferred"
  /\ \E file \in Files, k \in Range(ConstraintsKeys) \cup Range(StackKeys) \cup Range(ProjectKeys) :
       isManuallyEdited(stateFile.state, file, <<k>>)

\* ------------------------------------------- claims: the change reports
\* the fields of a kind that the Replace policy governs: neither
\* hard-preserved, nor a set-union array, nor the keyed directory list
ReplaceFields(file) ==
  CASE file = "project.json" -> Range(ProjectKeys) \ Range(preserveFields)
    [] file = "stack.json" -> Range(StackKeys) \ SetUnionFields(file)
    [] file = "architecture.json" -> Range(ArchitectureKeys) \ {"directories"}
    [] file = "constraints.json" -> Range(ConstraintsKeys) \ SetUnionFields(file)

\* the positions of the changes reported for a field
EntriesOf(changes, field) == {j \in 1..Len(changes) : changes[j].field = field}

\* both documents were handed to the merge and it returned
MergedBoth == ret.status = "ok" /\ call.existing.exists /\ call.inferred.exists

\* C23: for every kind and every Replace field that is not tagged Manual and
\* has an inferred value, the change list has exactly one entry for the field
\* when the inferred value differs from the existing one ('added' when the
\* existing value was absent, 'modified' otherwise) and none when they are
\* identical.
C23_ReplaceReported ==
  MergedBoth =>
    \A k \in ReplaceFields(call.file) :
      (/\ ~isManuallyEdited(call.state, call.file, <<k>>)
       /\ ~IsUndefined(call.inferred.f[k])) =>
        LET entries == EntriesOf(ret.changes, <<k>>)
        IN IF Stringify(call.existing.f[k]) = Stringify(call.inferred.f[k])
           THEN entries = {}
           ELSE /\ Cardinality(entries) = 1
                /\ \A j \in entries :
                     ret.changes[j].type =
                       IF IsUndefined(call.existing.f[k]) THEN "added" ELSE "modified"

\* a change of the given type on the array `field` that names the element e,
\* alone or in an array of elements
HasElemChange(changes, field, type, e) ==
  \E j \in 1..Len(changes) :
    /\ changes[j].field = <<field>>
    /\ changes[j].type = type
    /\ \E v \in {changes[j].oldValue, changes[j].newValue} :
         v = Str(e.key) \/ (v.tag = "arr" /\ e \in Range(v.a))

\* C24: for every set-union array, an element that is inferred and not in
\* existing yields an 'added' change; an element of existing that is tagged
\* Manual and not inferred is kept in merged and yields a 'preserved' change;
\* an untagged element of existing that is not inferred is dropped and yields
\* a 'removed' change; the changes carry the field name of the array.
C24_SetUnionReported ==
  MergedBoth =>
    \A field \in SetUnionFields(call.file) :
      LET inf == Range(OrEmpty(call.inferred.f[field]))
          ex == Range(OrEmpty(call.existing.f[field]))
          mg == Range(OrEmpty(ret.merged.f[field]))
          Manual(e) == isManuallyEdited(call.state, call.file, <<field, e.key>>)
      IN /\ \A e \in inf \ ex : HasElemChange(ret.changes, field, "added", e)
         /\ \A e \in ex \ inf :
              IF Manual(e)
              THEN e \in mg /\ HasElemChange(ret.changes, field, "preserved", e)
              ELSE e \notin mg /\ HasElemChange(ret.changes, field, "removed", e)

\* C25: in mergeProject, for team and for goals, whenever the existing
\* document holds a value that is neither undefined nor null and differs
\* from the inferred one the call was handed, merged keeps the existing
\* value and a 'preserved' change is recorded for the field, whatever the
\* store tracks.
C25_HardPreserve ==
  (MergedBoth /\ call.file = "project.json") =>
    \A field \in {"team", "goals"} :
      (/\ ~IsUndefined(call.existing.f[field])
       /\ call.existing.f[field].tag # "null"
       /\ Stringify(call.existing.f[field]) # Stringify(call.inferred.f[field])) =>
        /\ ret.merged.f[field] = call.existing.f[field]
        /\ HasChange(ret.changes, <<field>>, "preserved")

\* C26: in mergeProject a field that is tagged Manual and is also one of the
\* hard-preserved fields appears at most once in the change list, and the
\* entry is the one of the preserve-if-manual policy.
C26_OneChangePerField ==
  (MergedBoth /\ call.file = "project.json") =>
    \A field \in Range(preserveFields) :
      isManuallyEdited(call.state, call.file, <<field>>) =>
        /\ Cardinality(EntriesOf(ret.changes, <<field>>)) <= 1
        /\ \A j \in EntriesOf(ret.changes, <<field>>) :
             ret.changes[j].reason = "Manually edited field preserved"

\* the paths of a directory list
DirPaths(v) == {d.key : d \in Range(OrEmpty(v))}

\* the changes of the given type reported on the directories for a path
DirEntries(type, path) ==
  {j \in EntriesOf(ret.changes, <<"directories">>) :
     ret.changes[j].type = type
     /\ path \in {ret.changes[j].oldValue.s, ret.changes[j].newValue.s}}

\* mergeArchitecture has returned for two documents that hold a directory
\* list each, as the schema of the document requires
MergedDirs ==
  /\ MergedBoth /\ call.file = "architecture.json"
  /\ Truthy(call.existing.f["directories"])
  /\ Truthy(call.inferred.f["directories"])

C28_AbsentReportedRemoved ==
  MergedBoth =>
    \A k \in DOMAIN call.existing.f :
      (/\ k \notin Range(preserveFields)
       /\ ~isManuallyEdited(call.state, call.file, <<k>>)
       /\ ~IsUndefined(call.existing.f[k])
       /\ IsUndefined(call.inferred.f[k])) =>
        HasChange(ret.changes, <<k>>, "removed")

\* C29: a merge call leaves the existing and the inferred document it was
\* handed as they were (the store is only read), also when a path tagged
\* Manual has several segments and the preserved value is written into merged.
C29_MergePure ==
  ret.status # "none" =>
    /\ ret.existingAfter = call.existing
    /\ ret.inferredAfter = call.inferred

\* C30: for every kind, the merged document a merge returns carries the time
\* of the call as its update timestamp, whether or not a field changed.
C30_StampedEveryKind ==
  ret.status = "ok" =>
    /\ "updatedAt" \in DOMAIN ret.merged.f
    /\ ret.merged.f["updatedAt"] = Num(call.now)

\* ------------------------------------------- claims: the store, continued
\* two objects that hold the same key/value pairs, in any order
KeyReordering(v, w) ==
  /\ v.tag = "rec" /\ w.tag = "rec"
  /\ Len(v.a) = Len(w.a)
  /\ Range(v.a) = Range(w.a)

\* C31: the content hash does not depend on the order of the keys of an
\* object: while a field is tracked as inferred with value v,
\* hasInferredChanged returns false for every key reordering of v.
C31_HashKeyOrderStable ==
  \A k \in TrackedPaths :
    (/\ inferredArg[k].given
     /\ getFieldState(sm, k[1], k[2]).source = "inferred") =>
      \A v \in TrackedValues :
        KeyReordering(v, inferredArg[k].value) =>
          ~hasInferredChanged(sm, k[1], k[2], v)

\* C32: in every state of the store each tracked FieldState has exactly one
\* of lastInferred and lastModified set: lastInferred if and only if its
\* source is inferred, lastModified if and only if its source is manual.
C32_OneTimestampSet ==
  \A i \in 1..Len(sm.files) : \A j \in 1..Len(sm.files[i].fields) :
    LET st == sm.files[i].fields[j].st
    IN /\ (st.lastInferred # NoTime) <=> (st.source = "inferred")
       /\ (st.lastModified # NoTime) <=> (st.source = "manual")
       /\ (st.lastInferred # NoTime) # (st.lastModified # NoTime)

\* a store with a field tracked as inferred, and a field that was tracked as
\* inferred first and as manual afterwards
C32_Witness ==
  /\ calls = MaxCalls
  /\ isManuallyEdited(sm, "project.json", <<"name">>)
  /\ inferredArg[<<"project.json", <<"name">>>>].given
  /\ HasFieldState(sm, "stack.json", <<"language">>)
  /\ getFieldState(sm, "stack.json", <<"language">>).source = "inferred"

\* ------------------------------------------ claims: the passes, continued
\* a pass of `update` that has taken its snapshot
SnapshotStep ==
  PassStep /\ last'.op = "update" /\ ~last'.dryRun /\ last'.threw # "backup"

\* C33: each snapshot adds one backup, equal to the store the pass loaded,
\* and leaves every earlier backup as it was, also when two snapshots are
\* taken within the same second.
C33_BackupsImmutable ==
  [][SnapshotStep =>
       /\ backups \subseteq backups'
       /\ Cardinality(backups') = Cardinality(backups) + 1
       /\ \E b \in backups' \ backups : b.content = loadState(stateFile, clock)]_vars

\* ------------------------------------------- claims: the merge, continued
\* C34: a second pass with the same inferred document and the same
\* provenance leaves every array field of the merged document as the first
\* pass left it.
C34_ArraysFixedPoint ==
  again.status = "ok" =>
    \A k \in DOMAIN ret.merged.f :
      ret.merged.f[k].tag = "arr" => again.merged.f[k] = ret.merged.f[k]

\* C35: when a normal pass ends through the 'up to date' shortcut, every
\* merged document equals the document on disk apart from the update
\* timestamp.
C35_ShortcutLosesNothing ==
  (last.op = "update" /\ last.outcome = "uptodate") => last.differing = {}

\* C36: starting from an empty store, after any sequence of passes every
\* tracked field path is a top-level key of its document, so that the Manual
\* filters of mergeConstraints select no element of the constraints on disk.
C36_TopLevelPathsOnly ==
  /\ \A i \in 1..Len(stateFile.state.files) :
       \A j \in 1..Len(stateFile.state.files[i].fields) :
         LET path == stateFile.state.files[i].fields[j].path
         IN /\ Len(path) = 1
            /\ stateFile.state.files[i].file \in Files
            /\ path[1] \in Range(KeysOf(stateFile.state.files[i].file))
  /\ \A field \in SetUnionFields("constraints.json") :
       Truthy(docs["constraints.json"].f[field]) =>
         ManualItems(stateFile.state, docs["constraints.json"], field) = <<>>

\* a saved store that tracks the four documents, a constraints array among
\* them, and tags a hand-edited field Manual
C36_Witness ==
  /\ stateFile.exists
  /\ Len(stateFile.state.files) = 4
  /\ HasFieldState(stateFile.state, "constraints.json", <<"mustUse">>)
  /\ docs["constraints.json"].f["mustUse"].a # <<>>
  /\ isManuallyEdited(stateFile.state, "project.json", <<"team">>)

\* C37: project.json's updatedAt, which the merge stamps itself, is never
\* tagged Manual in the saved store and never appears as a 'preserved'
\* change in the report of a pass.
C37_StampNeverManual ==
  /\ ~isManuallyEdited(stateFile.state, "project.json", <<"updatedAt">>)
  /\ \A j \in 1..Len(last.report) :
       ~ /\ last.report[j].file = "project.json"
         /\ last.report[j].change.field = "updatedAt"
         /\ last.report[j].change.type = "preserved"

\* the kinds the changed paths of a batch select
KindsSelected(files) ==
  {file \in {"stack.json"} : "package.json" \in files}
    \cup {file \in {"architecture.json"} : "src/index.ts" \in files}
    \cup {file \in {"constraints.json"} : "tsconfig.json" \in files}

\* C38: updateContext never throws; each kind selected by the changed paths
\* ends either in result.updated, its inferred document written, or in
\* result.errors, never in both; a kind that is not selected is neither
\* inferred nor written; project.json gets only its updatedAt refreshed, and
\* only if it already exists.
C38_UpdateContextPerKind ==
  [][(PassStep /\ last'.op = "updateContext") =>
       LET sel == KindsSelected(last'.batch)
           ended == last'.written \cup last'.failed
       IN /\ last'.threw = "none" /\ last'.outcome = "ok"
          /\ last'.written \cap last'.failed = {}
          /\ \A file \in Files \ {"project.json"} :
               IF file \in sel
               THEN /\ file \in ended
                    /\ file \in last'.written =>
                         docs'[file] = JsonRoundTrip(infer(file, codebase, clock))
               ELSE /\ file \notin ended
                    /\ docs'[file] = docs[file]
                    /\ updateContext(last'.batch, {}, clock).inferred[file]
                         = NotFound(file)
          /\ IF docs["project.json"].exists
             THEN /\ "project.json" \in ended
                  /\ docs'["project.json"].exists
                  /\ \A k \in DOMAIN docs["project.json"].f :
                       k # "updatedAt" =>
                         docs'["project.json"].f[k] = docs["project.json"].f[k]
             ELSE /\ "project.json" \notin ended
                  /\ docs'["project.json"] = docs["project.json"]]_vars

\* a watch-triggered pass over a batch that selects the stack only: the
\* stack failed, project.json was refreshed, the other kinds were left alone
C38_Witness ==
  /\ last.op = "updateContext"
  /\ last.batch = {"package.json"}
  /\ last.failed = {"stack.json"}
  /\ last.written = {"project.json"}
  /\ docs["project.json"].f["updatedAt"] = Num(clock)

\* C39: in once mode the watcher runs one reconciliation pass: no second
\* pass starts, even if file events arrive while the first pass is running.
C39_OncePassOnly == options.once => obs.started <= 1

\* the timestamps of the events the watch log holds, in the order of the log
LogStamps == [n \in 1..Len(watchlog.events) |-> watchlog.events[n].timestamp]

\* C40: the watch log holds at most 100 events, in arrival order, and they
\* are the most recent of the events that were ever logged: an event that was
\* logged and is no longer in the log is older than every event in the log,
\* and none is missing while the log has room.
C40_LogKeepsMostRecent ==
  (watchlog.exists /\ ~watchlog.corrupt) =>
    /\ Len(LogStamps) <= WatchLogCap
    /\ \A n \in 1..(Len(LogStamps) - 1) : LogStamps[n] < LogStamps[n + 1]
    /\ Range(LogStamps) \subseteq obs.logged
    /\ \A t \in obs.logged \ Range(LogStamps) :
         /\ Len(LogStamps) = WatchLogCap
         /\ t < LogStamps[1]

====
